---- MODULE Spec2Model ----
(***************************************************************************)
(* The adaptive buffer-forcing content script (src/unnamed/part_000) as a  *)
(* state machine.                                                          *)
(*                                                                         *)
(* Units.  Media positions and durations are integers in milliseconds.     *)
(* Timer delays and the clock are integers in units of 50 ms, the greatest *)
(* common divisor of every delay the script uses (1000, 500, 150 + 50 f,   *)
(* 100).  A timer fires when its remaining time is 0; time advances only   *)
(* while no timer is due.  A handler runs to completion (JavaScript's      *)
(* single thread); the media element and the page change between handlers. *)
(*                                                                         *)
(* A handler is an operator from a "world" record                          *)
(*   [st, trk, vid, timers, sent, did, thrown]                             *)
(* to a world record: st is the script's `state` object, trk its           *)
(* connectionTracker, vid the <video> element with the page's quality      *)
(* signal, timers the pending setTimeout callbacks, sent the messages the  *)
(* handler has sent to the background script, did a note of its steps, and *)
(* thrown says that an exception is propagating out of the code executed   *)
(* so far.                                                                 *)
(***************************************************************************)
EXTENDS Integers, Sequences, FiniteSets, TLC

VARIABLES
  state,      \* the script's `state` object                  (part_000:28-46)
  tracker,    \* connectionTracker                            (part_000:49-90)
  video,      \* the page's <video> element and quality signal
  timers,     \* pending setTimeout callbacks, in creation order
  tickRem,    \* time until the setInterval callback is next due
  sent,       \* the BUFFER_STATUS messages the last handler sent, in order
  did,        \* what the last handler did to the session and the source, in order
  escaped,    \* the last handler let an exception propagate to the host
  config,     \* the part of `config` that the bounds scale down
  feed,       \* outcomes fed to the Strategy Adapter since its last reset
  planned,    \* what the Step-Size Planner last returned in SpecPlanner, and to whom
  port,       \* whether chrome.runtime still delivers messages (extension context valid)
  pausedAtStart, \* history: video.paused when the last session began
  intervals,     \* how many setInterval timers are active
  answer,        \* what isVideoFullyBuffered last returned in SpecInspector
  lifecycle      \* history: the last started or complete message delivered for the bound source

vars == <<state, tracker, video, timers, tickRem, sent, did, escaped, config, feed, planned,
         port, pausedAtStart, intervals, answer, lifecycle>>

----------------------------------------------------------------------------
(* Bounds of the model *)

\* maxSeekAttempts of the short sessions (config.maxSeekAttempts, scaled)
MaxSeekAttempts == 2
\* maxSeekAttempts of the long sessions: past both escalation thresholds, and
\* long enough for the seek's delay (150 + 50 f ms) to pass the tick's period
LongSeekAttempts == 20
\* maxSeekAttempts of the sessions in which the download responds to the seeks:
\* five failures and five successes fit
MidSeekAttempts == 11
\* how many setTimeout callbacks may be pending at once
MaxTimers == 3
\* the age at which the model stops counting the time since a Date.now() sample
MaxAge == 1
\* how many times the player switches quality
MaxSwitches == 2
\* how many outcomes the Strategy Adapter is fed in SpecStrategy
MaxFeed == 22
\* how many runs of equal outcomes (failures, successes, failures) it is fed
MaxRuns == 3
\* how far the furthest buffered range may grow between two stages (ms)
MaxGrowth == 19000
\* how many buffered ranges the sources of SpecInspector have
MaxRanges == 2

----------------------------------------------------------------------------
(* config (part_000:13-25); delays in 50 ms units, steps in ms *)

checkInterval == 20
adaptiveSeekMinimum == 5000
adaptiveSeekMaximum == 60000
shortsSeekStepSize == 5000
retryDelayIncrement == 1
connectionSpeedSampleSize == 5
qualityChangeThreshold == 10
\* the literal delays of the setTimeout calls
settleDelayBase == 3
recoveryDelay == 10
observerDelay == 2

----------------------------------------------------------------------------
(* Values *)

NoVideo == "null"
TheVideo == "video"
AnotherVideo == "video2"
NoQuality == "null"
Labels == {"720p", "1080p"}

\* video.duration before the metadata is loaded
NaN == 0 - 1
isFinite(d) == d >= 0

Max(a, b) == IF a >= b THEN a ELSE b
Min(a, b) == IF a <= b THEN a ELSE b

----------------------------------------------------------------------------
(* state.seekStepMultiplier is an IEEE-754 double.  The values it takes are *)
(* 1, 1.5, 2 and what repeated `-= 0.1` makes of them.  A double x in       *)
(* [0.5, 2] is kept as the pair [t, e] with x = t/10 + e*u exactly, where   *)
(* u = 2^-55 / 5: t is the decimal the value prints near and e the          *)
(* representation error.  In units of u, 1/10 is 2^54 and the double 0.1 is *)
(* 2^54 + 1; doubles in [1, 2) are the multiples of 40 u (2^-52) and those  *)
(* in [0.5, 1) the multiples of 20 u (2^-53).  2^54 = 64 (mod 80).          *)

Double(t, e) == [t |-> t, e |-> e]
One == Double(10, 0)
OneAndHalf == Double(15, 0)
Two == Double(20, 0)

\* x < 1 and x > 1  (|e| is far below 2^54)
LessThanOne(x) == x.t < 10 \/ (x.t = 10 /\ x.e < 0)
GreaterThanOne(x) == x.t > 10 \/ (x.t = 10 /\ x.e > 0)

\* x - 0.1 in exact decimal arithmetic: what `-= 0.1` is not
MinusTenth_exact(x) == Double(x.t - 1, x.e)

\* x - 0.1, rounded to nearest, ties to even
MinusTenth(x) ==
  LET t1 == x.t - 1
      e1 == x.e - 1                    \* exact difference: t1/10 + e1*u
      q  == IF t1 > 10 \/ (t1 = 10 /\ e1 >= 0) THEN 40 ELSE 20
      w  == (64 * t1 + e1) % 80        \* the exact difference modulo 80 u
      r  == w % q
      downEven == ((w - r) % (2 * q)) = 0
  IN IF r = 0 THEN Double(t1, e1)
     ELSE IF 2 * r < q \/ (2 * r = q /\ downEven) THEN Double(t1, e1 - r)
     ELSE Double(t1, e1 + (q - r))

----------------------------------------------------------------------------
(* The media element.  video.buffered is a sequence of [start, end]; the   *)
(* source's states are the stages of one download, in order:               *)

Range(a, b) == [start |-> a, end |-> b]

MediaStages ==
  << [duration |-> NaN,   buffered |-> << >>],
     [duration |-> 20000, buffered |-> <<Range(0, 4000)>>],
     [duration |-> 20000, buffered |-> <<Range(0, 5000)>>],
     [duration |-> 20000, buffered |-> <<Range(0, 5000), Range(9800, 12000)>>],
     [duration |-> 20000, buffered |-> <<Range(0, 5000), Range(9800, 19700)>>],
     [duration |-> 20000, buffered |-> <<Range(0, 20000)>>] >>

\* where the host (the user, the player) may put the playback position and rate
HostPositions == {1000, 3000}
HostRates == {1, 2}

\* A torn-down element faults on every read or write of currentTime; a write
\* of a non-finite value faults on any element (TypeError).
ReadPositionThrows(v) == v.broken
WritePositionThrows(v, t) == v.broken \/ ~isFinite(t)

\* the element's videoHeight and videoWidth (the label comes from the player)
videoHeight(v) == 720
videoWidth(v) == 1280

\* getCurrentVideoQuality (145-175): the label of the player's quality
\* accessor, or null; every fault is caught inside.
getCurrentVideoQuality(w) == w.vid.quality

RECURSIVE SumDurations(_)
SumDurations(b) ==
  IF b = << >> THEN 0 ELSE (Head(b).end - Head(b).start) + SumDurations(Tail(b))

\* calculateBufferedBytes (97-122), in bytes: bitrateFactor*width*height/8
\* bytes per second of video times the buffered seconds
calculateBufferedBytes(v) ==
  IF Len(v.buffered) = 0 THEN 0
  ELSE LET h == IF videoHeight(v) = 0 THEN 720 ELSE videoHeight(v)
           wd == IF videoWidth(v) = 0 THEN 1280 ELSE videoWidth(v)
           factor10 == IF h >= 1080 THEN 15 ELSE IF h >= 720 THEN 10
                       ELSE IF h >= 480 THEN 7 ELSE 5
       IN ((factor10 * wd * h) \div 800) * (SumDurations(v.buffered) \div 100)

\* isVideoFullyBuffered (182-209); reads currentTime once a range exists
isVideoFullyBufferedThrows(v) == Len(v.buffered) > 0 /\ ReadPositionThrows(v)

\* isVideoFullyBuffered without `start <= currentTime` (line 203)
isVideoFullyBuffered_anyStart(v) ==
  /\ Len(v.buffered) > 0
  /\ isFinite(v.duration)
  /\ \E i \in 1..Len(v.buffered) : v.buffered[i].end >= v.duration - 500

isVideoFullyBuffered(v) ==
  /\ Len(v.buffered) > 0
  /\ isFinite(v.duration)
  /\ \E i \in 1..Len(v.buffered) :
        /\ v.buffered[i].start <= v.currentTime
        /\ v.buffered[i].end >= v.duration - 500

RECURSIVE MaxEnd(_, _)
MaxEnd(b, m) == IF b = << >> THEN m ELSE MaxEnd(Tail(b), Max(m, Head(b).end))

\* getFurthestBufferedTime (216-231)
getFurthestBufferedTime(v) == IF Len(v.buffered) = 0 THEN 0 ELSE MaxEnd(v.buffered, 0)

----------------------------------------------------------------------------
(* connectionTracker (49-90).  lastSampleTime is kept as the time elapsed  *)
(* since it was taken (age, in 50 ms units, counted up to MaxAge), or -1   *)
(* while it is 0.  A sample is [bytes, ticks]: bytes per `ticks` units.    *)

TrackerReset == [samples |-> << >>, lastSampleAge |-> 0 - 1, lastBufferedBytes |-> 0]

\* addSample dropping the new sample, not the oldest, at capacity
addSample_pop(samples, x) ==
  IF Len(samples) >= connectionSpeedSampleSize THEN samples ELSE Append(samples, x)

\* addSample (54-59)
addSample(samples, x) ==
  LET pushed == Append(samples, x)
  IN IF Len(pushed) > connectionSpeedSampleSize THEN Tail(pushed) ELSE pushed

\* update (73-90)
trackerUpdate(trk, v) ==
  IF Len(v.buffered) = 0 THEN trk
  ELSE LET bufferedBytes == calculateBufferedBytes(v)
           sampled ==
             IF /\ trk.lastSampleAge >= 0                       \* lastSampleTime > 0
                /\ trk.lastSampleAge > 0                        \* elapsedTime > 0
                /\ bufferedBytes > trk.lastBufferedBytes
             THEN addSample(trk.samples,
                    [bytes |-> bufferedBytes - trk.lastBufferedBytes,
                     ticks |-> trk.lastSampleAge])
             ELSE trk.samples
       IN [samples |-> sampled, lastSampleAge |-> 0, lastBufferedBytes |-> bufferedBytes]

----------------------------------------------------------------------------
(* Messages to the background script.  chrome.runtime.sendMessage sits in  *)
(* a try/catch at every call (331-344, 455-469, 560-571, 601-613); it      *)
(* throws once the extension context is gone, and `sent` keeps what was    *)
(* delivered.                                                              *)

Event(status, quality, attempts, from) ==
  [status |-> status, quality |-> quality, attempts |-> attempts, from |-> from]

\* sendMessage outside a try/catch
Emit_uncaught(w, ev) == IF w.port THEN [w EXCEPT !.sent = Append(@, ev)] ELSE [w EXCEPT !.thrown = TRUE]

\* try { chrome.runtime.sendMessage(...) } catch (error) { }
Emit(w, ev) == IF w.port THEN [w EXCEPT !.sent = Append(@, ev)] ELSE w

\* the messages that open and close a session (560-571, 601-613)
IsLifecycle(ev) == ev.status \in {"started", "complete"}
Lifecycle(msgs) == SelectSeq(msgs, IsLifecycle)

\* a note of what the handler did: "start" and "forceStart" (Idle to
\* Buffering), "stop" (Buffering to Idle), "stopIdle" (stopBuffering called
\* while Idle), "seek" (the position moved ahead), "restore" (the position
\* put back by the seek's callback), "seekError" and "callbackError" (the
\* catch of the seek and of its callback)
Note(w, what) == [w EXCEPT !.did = Append(@, what)]

Throw(w) == [w EXCEPT !.thrown = TRUE]

\* setTimeout: the callback's kind, its delay, and what its closure captured
setTimeout(w, kind, delay, pos, prev) ==
  [w EXCEPT !.timers = Append(@, [kind |-> kind, rem |-> delay, pos |-> pos, prev |-> prev])]

----------------------------------------------------------------------------
(* Strategy Adapter *)

\* resetBufferingStrategy (391-396)
resetBufferingStrategy(st) ==
  [st EXCEPT !.bufferingStrategy = "normal",
             !.seekStepMultiplier = One,
             !.consecutiveFailedAttempts = 0]

\* updateBufferingStrategy without the floor of lines 363-366
updateBufferingStrategy_unclamped(st, success) ==
  IF success
  THEN LET s0 == [st EXCEPT !.consecutiveFailedAttempts = 0]
       IN IF s0.bufferingStrategy = "aggressive" /\ GreaterThanOne(s0.seekStepMultiplier)
          THEN [s0 EXCEPT !.seekStepMultiplier = MinusTenth(@)]
          ELSE s0
  ELSE LET s1 == [st EXCEPT !.consecutiveFailedAttempts = @ + 1]
       IN IF s1.consecutiveFailedAttempts >= 10
          THEN [s1 EXCEPT !.bufferingStrategy = "aggressive", !.seekStepMultiplier = Two]
          ELSE IF s1.consecutiveFailedAttempts >= 5
          THEN [s1 EXCEPT !.bufferingStrategy = "aggressive", !.seekStepMultiplier = OneAndHalf]
          ELSE s1

\* updateBufferingStrategy with `>` for the `>=` of lines 373 and 378
updateBufferingStrategy_late(st, success) ==
  IF success
  THEN LET s0 == [st EXCEPT !.consecutiveFailedAttempts = 0]
       IN IF s0.bufferingStrategy = "aggressive" /\ GreaterThanOne(s0.seekStepMultiplier)
          THEN LET m == MinusTenth(s0.seekStepMultiplier)
               IN IF LessThanOne(m)
                  THEN [s0 EXCEPT !.seekStepMultiplier = One, !.bufferingStrategy = "normal"]
                  ELSE [s0 EXCEPT !.seekStepMultiplier = m]
          ELSE s0
  ELSE LET s1 == [st EXCEPT !.consecutiveFailedAttempts = @ + 1]
       IN IF s1.consecutiveFailedAttempts > 10
          THEN [s1 EXCEPT !.bufferingStrategy = "aggressive", !.seekStepMultiplier = Two]
          ELSE IF s1.consecutiveFailedAttempts > 5
          THEN [s1 EXCEPT !.bufferingStrategy = "aggressive", !.seekStepMultiplier = OneAndHalf]
          ELSE s1

\* updateBufferingStrategy (355-386)
updateBufferingStrategy(st, success) ==
  IF success
  THEN LET s0 == [st EXCEPT !.consecutiveFailedAttempts = 0]
       IN IF s0.bufferingStrategy = "aggressive" /\ GreaterThanOne(s0.seekStepMultiplier)
          THEN LET m == MinusTenth(s0.seekStepMultiplier)
               IN IF LessThanOne(m)
                  THEN [s0 EXCEPT !.seekStepMultiplier = One, !.bufferingStrategy = "normal"]
                  ELSE [s0 EXCEPT !.seekStepMultiplier = m]
          ELSE s0
  ELSE LET s1 == [st EXCEPT !.consecutiveFailedAttempts = @ + 1]
       IN IF s1.consecutiveFailedAttempts >= 10
          THEN [s1 EXCEPT !.bufferingStrategy = "aggressive", !.seekStepMultiplier = Two]
          ELSE IF s1.consecutiveFailedAttempts >= 5
          THEN [s1 EXCEPT !.bufferingStrategy = "aggressive", !.seekStepMultiplier = OneAndHalf]
          ELSE s1

----------------------------------------------------------------------------
(* Step-Size Planner *)

\* calculateBufferSpeed (238-258).  state.lastBufferTime is kept as the time
\* elapsed since it was taken (lastBufferAge, -1 while it is 0).  The speed
\* returned is diff ms of media per `ticks` units of 50 ms; 0 is [0, 1].
calculateBufferSpeed(st, v) ==
  IF st.lastBufferEnd = 0 \/ st.lastBufferAge < 0
  THEN [st |-> st, diff |-> 0, ticks |-> 1]
  ELSE IF st.lastBufferAge <= 0                                  \* timeDiff <= 0
  THEN [st |-> st, diff |-> 0, ticks |-> 1]
  ELSE [st |-> [st EXCEPT !.lastBufferEnd = getFurthestBufferedTime(v),
                          !.lastBufferAge = 0],
        diff |-> getFurthestBufferedTime(v) - st.lastBufferEnd,
        ticks |-> st.lastBufferAge]

\* the speedMultiplier of getSeekStepSize (291-301), in tenths
speedMultiplier10(diff, ticks) ==
  IF diff > 250 * ticks THEN 15           \* bufferSpeed > 5
  ELSE IF diff > 100 * ticks THEN 12      \* bufferSpeed > 2
  ELSE IF diff < 25 * ticks THEN 6        \* bufferSpeed < 0.5
  ELSE IF diff < 50 * ticks THEN 8        \* bufferSpeed < 1
  ELSE 10

\* the baseSeekStep of getSeekStepSize (276-287), in seconds
baseSeekStep(duration) ==
  IF duration < 60000 THEN 5
  ELSE IF duration < 300000 THEN 10
  ELSE IF duration < 900000 THEN 20
  ELSE IF duration < 1800000 THEN 30
  ELSE 45

\* getSeekStepSize without the clamp of lines 310-313
getSeekStepSize_unclamped(st, v) ==
  IF st.isShorts THEN [st |-> st, step |-> shortsSeekStepSize]
  ELSE IF ~isFinite(v.duration) THEN [st |-> st, step |-> adaptiveSeekMinimum]
  ELSE LET sp == calculateBufferSpeed(st, v)
       IN [st |-> sp.st,
           step |-> baseSeekStep(v.duration) * speedMultiplier10(sp.diff, sp.ticks)
                      * sp.st.seekStepMultiplier.t * 10]

\* getSeekStepSize (265-314), in ms.  The product takes the multiplier at
\* the decimal it prints near: its error, below 10^-15, moves the step by
\* less than a picosecond.
getSeekStepSize(st, v) ==
  IF st.isShorts THEN [st |-> st, step |-> shortsSeekStepSize]
  ELSE IF ~isFinite(v.duration) THEN [st |-> st, step |-> adaptiveSeekMinimum]
  ELSE LET sp == calculateBufferSpeed(st, v)
           finalSeekStep == baseSeekStep(v.duration) * speedMultiplier10(sp.diff, sp.ticks)
                              * sp.st.seekStepMultiplier.t * 10
       IN [st |-> sp.st,
           step |-> Max(adaptiveSeekMinimum, Min(adaptiveSeekMaximum, finalSeekStep))]

\* what an attempt of forceBuffering plans: the speed it measures and reports
\* (line 448), and then the step of the planner (line 480)
attemptPlan(st, v) ==
  LET sp == calculateBufferSpeed(st, v)
      ss == getSeekStepSize(sp.st, v)
  IN [st |-> ss.st, step |-> ss.step, diff |-> sp.diff, ticks |-> sp.ticks]

----------------------------------------------------------------------------
(* Quality-Change Monitor *)

\* detectQualityChange (320-349).  The message reads state.lastKnownQuality
\* for `from` after it was overwritten.
detectQualityChange(w) ==
  LET currentQuality == getCurrentVideoQuality(w)
  IN IF /\ currentQuality # NoQuality
        /\ w.st.lastKnownQuality # NoQuality
        /\ currentQuality # w.st.lastKnownQuality
     THEN LET st1 == resetBufferingStrategy(
                       [w.st EXCEPT !.lastKnownQuality = currentQuality,
                                    !.qualityChangeDetected = TRUE])
          IN [w |-> Emit([w EXCEPT !.st = st1],
                         Event("quality_change", currentQuality, 0, st1.lastKnownQuality)),
              detected |-> TRUE]
     ELSE [w |-> w, detected |-> FALSE]

----------------------------------------------------------------------------
(* Buffer-Forcing Controller *)

\* stopBuffering without the guard of lines 580-582
stopBuffering_unguarded(w) ==
  IF w.st.videoElement # NoVideo /\ WritePositionThrows(w.vid, w.st.originalPlaybackTime)
  THEN Throw(w)
  ELSE LET vid1 == IF w.st.videoElement # NoVideo
                   THEN [w.vid EXCEPT !.currentTime = w.st.originalPlaybackTime,
                                      !.playbackRate = w.st.originalPlaybackRate]
                   ELSE w.vid
           st1 == resetBufferingStrategy(
                    [w.st EXCEPT !.isBuffering = FALSE, !.qualityChangeDetected = FALSE])
           w1 == Emit([w EXCEPT !.vid = vid1, !.st = st1],
                      Event("complete", getCurrentVideoQuality(w), st1.seekAttempts, NoQuality))
       IN Note([w1 EXCEPT !.st.seekAttempts = 0, !.trk = TrackerReset], "stop")

\* stopBuffering with the counter reset (616) before the message (601-613)
stopBuffering_resetFirst(w) ==
  IF ~w.st.isBuffering THEN Note(w, "stopIdle")
  ELSE IF w.st.videoElement # NoVideo /\ WritePositionThrows(w.vid, w.st.originalPlaybackTime)
  THEN Throw(w)
  ELSE LET vid1 == IF w.st.videoElement # NoVideo
                   THEN [w.vid EXCEPT !.currentTime = w.st.originalPlaybackTime,
                                      !.playbackRate = w.st.originalPlaybackRate]
                   ELSE w.vid
           st1 == resetBufferingStrategy(
                    [w.st EXCEPT !.isBuffering = FALSE, !.qualityChangeDetected = FALSE,
                                 !.seekAttempts = 0])
           w1 == Emit([w EXCEPT !.vid = vid1, !.st = st1],
                      Event("complete", getCurrentVideoQuality(w), st1.seekAttempts, NoQuality))
       IN Note([w1 EXCEPT !.trk = TrackerReset], "stop")

\* stopBuffering (579-618)
stopBuffering(w) ==
  IF ~w.st.isBuffering THEN Note(w, "stopIdle")
  ELSE IF w.st.videoElement # NoVideo /\ WritePositionThrows(w.vid, w.st.originalPlaybackTime)
  THEN Throw(w)
  ELSE LET vid1 == IF w.st.videoElement # NoVideo
                   THEN [w.vid EXCEPT !.currentTime = w.st.originalPlaybackTime,
                                      !.playbackRate = w.st.originalPlaybackRate]
                   ELSE w.vid
           st1 == resetBufferingStrategy(
                    [w.st EXCEPT !.isBuffering = FALSE, !.qualityChangeDetected = FALSE])
           w1 == Emit([w EXCEPT !.vid = vid1, !.st = st1],
                      Event("complete", getCurrentVideoQuality(w), st1.seekAttempts, NoQuality))
       IN Note([w1 EXCEPT !.st.seekAttempts = 0, !.trk = TrackerReset], "stop")

\* the catch of forceBuffering's seek (527-538)
seekFailed(w) ==
  LET w1 == Note([w EXCEPT !.st.seekAttempts = @ + 1,
                           !.st.consecutiveFailedAttempts = @ + 1],
                 "seekError")
  IN IF w1.st.consecutiveFailedAttempts >= 10 THEN stopBuffering(w1) ELSE w1

seekTarget_unbounded(duration, furthest, step) ==
  IF isFinite(duration) THEN furthest + step ELSE NaN

\* nextSeekPosition (483): Math.min(furthest + step, duration - 0.1), NaN
\* when the duration is
seekTarget(duration, furthest, step) ==
  IF isFinite(duration) THEN Min(furthest + step, duration - 100) ELSE NaN

remainingTime_fromPosition(v) ==
  IF isFinite(v.duration) THEN v.duration - v.currentTime ELSE NaN

\* remainingTime (446): what is left after the furthest buffered end
remainingTime(v) ==
  IF isFinite(v.duration) THEN v.duration - getFurthestBufferedTime(v) ELSE NaN

\* forceBuffering from line 444 on: measure, report, stop or seek
forceAttempt(w) ==
  LET duration == w.vid.duration
      furthestBufferedTime == getFurthestBufferedTime(w.vid)
      \* remainingTime <= 0.5 is false for NaN
      nearEnd == isFinite(duration) /\ remainingTime(w.vid) <= 500
      \* Math.round(furthest / duration * 100) % 10 === 0, false for NaN
      tenthReached == /\ isFinite(duration)
                      /\ ((200 * furthestBufferedTime + duration) \div (2 * duration)) % 10 = 0
      sp == calculateBufferSpeed(w.st, w.vid)
      w1 == [w EXCEPT !.st = sp.st]
      w2 == IF w1.st.seekAttempts % 5 = 0 \/ tenthReached
            THEN Emit(w1, Event("progress", w1.st.lastKnownQuality, w1.st.seekAttempts, NoQuality))
            ELSE w1
  IN IF nearEnd \/ w2.st.seekAttempts >= config.maxSeekAttempts THEN stopBuffering(w2)
     ELSE LET ss == getSeekStepSize(w2.st, w2.vid)
              w3 == [w2 EXCEPT !.st = ss.st]
              nextSeekPosition == seekTarget(duration, furthestBufferedTime, ss.step)
          IN IF ReadPositionThrows(w3.vid) \/ WritePositionThrows(w3.vid, nextSeekPosition)
             THEN seekFailed(w3)
             ELSE setTimeout(Note([w3 EXCEPT !.vid.currentTime = nextSeekPosition], "seek"),
                             "settle",
                             settleDelayBase + w3.st.consecutiveFailedAttempts * retryDelayIncrement,
                             w3.vid.currentTime, furthestBufferedTime)

\* forceBuffering's own start of a session (423-442)
forceStart(w) ==
  IF ReadPositionThrows(w.vid)
  THEN Throw([w EXCEPT !.st.originalPlaybackRate = w.vid.playbackRate])
  ELSE Note([w EXCEPT !.st.originalPlaybackRate = w.vid.playbackRate,
                      !.st.originalPlaybackTime = w.vid.currentTime,
                      !.st.isBuffering = TRUE,
                      !.st.lastBufferEnd = getFurthestBufferedTime(w.vid),
                      !.st.lastBufferAge = 0,
                      !.vid.paused = TRUE],
            "forceStart")

\* forceBuffering (401-539)
forceBuffering(w) ==
  IF w.st.videoElement = NoVideo THEN stopBuffering(w)
  ELSE IF isVideoFullyBufferedThrows(w.vid) THEN Throw(w)
  ELSE IF isVideoFullyBuffered(w.vid) \/ w.st.seekAttempts >= config.maxSeekAttempts
  THEN stopBuffering(w)
  ELSE LET q == detectQualityChange(w)
       IN IF q.detected /\ q.w.st.isBuffering
          THEN LET s == stopBuffering(q.w)
               IN IF s.thrown THEN s
                  ELSE setTimeout(s, "restart", qualityChangeThreshold, 0, 0)
          ELSE LET w1 == [q.w EXCEPT !.trk = trackerUpdate(q.w.trk, q.w.vid)]
                   w2 == IF ~w1.st.isBuffering THEN forceStart(w1) ELSE w1
               IN IF w2.thrown THEN w2 ELSE forceAttempt(w2)

\* startBuffering (544-574)
startBuffering(w) ==
  IF w.st.videoElement = NoVideo \/ w.st.isBuffering THEN w
  ELSE IF ReadPositionThrows(w.vid) THEN Throw(w)
  ELSE LET currentQuality == getCurrentVideoQuality(w)
           st1 == resetBufferingStrategy(
                    [w.st EXCEPT !.originalPlaybackTime = w.vid.currentTime,
                                 !.originalPlaybackRate = w.vid.playbackRate,
                                 !.isBuffering = TRUE,
                                 !.seekAttempts = 0,
                                 !.consecutiveFailedAttempts = 0])
           st2 == [st1 EXCEPT !.lastKnownQuality = currentQuality]
       IN forceBuffering(
            Emit(Note([w EXCEPT !.st = st2], "start"),
                 Event("started", currentQuality, 0, NoQuality)))

\* the callback with progress taken as any growth of the furthest end
settleCallback_anyGrowth(w, t) ==
  LET newFurthestBuffered == getFurthestBufferedTime(w.vid)
      madeProgress == newFurthestBuffered > t.prev
      w1 == [w EXCEPT !.st = updateBufferingStrategy(w.st, madeProgress)]
  IN IF WritePositionThrows(w1.vid, t.pos)
     THEN Note([w1 EXCEPT !.st.seekAttempts = @ + 1], "callbackError")
     ELSE LET w2 == Note([w1 EXCEPT !.vid.currentTime = t.pos, !.st.seekAttempts = @ + 1],
                         "restore")
          IN IF w2.st.consecutiveFailedAttempts > 5 /\ w2.st.seekAttempts % 5 = 0
             THEN setTimeout(w2, "recover", recoveryDelay, 0, 0)
             ELSE w2

\* the callback of the seek's setTimeout (497-526); t is the timer's record
settleCallback(w, t) ==
  LET newFurthestBuffered == getFurthestBufferedTime(w.vid)
      madeProgress == newFurthestBuffered > t.prev + 1000
      w1 == [w EXCEPT !.st = updateBufferingStrategy(w.st, madeProgress)]
  IN IF WritePositionThrows(w1.vid, t.pos)
     THEN Note([w1 EXCEPT !.st.seekAttempts = @ + 1], "callbackError")  \* catch (innerError)
     ELSE LET w2 == Note([w1 EXCEPT !.vid.currentTime = t.pos, !.st.seekAttempts = @ + 1],
                         "restore")
          IN IF w2.st.consecutiveFailedAttempts > 5 /\ w2.st.seekAttempts % 5 = 0
             THEN setTimeout(w2, "recover", recoveryDelay, 0, 0)
             ELSE w2

\* the setInterval callback (670-681)
tickCallback(w) ==
  IF w.st.videoElement # NoVideo /\ isVideoFullyBufferedThrows(w.vid) THEN Throw(w)
  ELSE IF w.st.videoElement # NoVideo /\ ~isVideoFullyBuffered(w.vid)
  THEN IF ~w.st.isBuffering THEN startBuffering(w) ELSE forceBuffering(w)
  ELSE IF w.st.isBuffering THEN stopBuffering(w)
  ELSE w

\* the resize listener (637-652)
resizeListener(w) ==
  LET newQuality == getCurrentVideoQuality(w)
  IN IF /\ w.st.lastKnownQuality # NoQuality
        /\ newQuality # NoQuality
        /\ w.st.lastKnownQuality # newQuality
     THEN LET w1 == [w EXCEPT !.st.lastKnownQuality = newQuality,
                              !.st.qualityChangeDetected = TRUE]
          IN IF w1.st.isBuffering
             THEN LET s == stopBuffering(w1)
                  IN IF s.thrown THEN s
                     ELSE setTimeout(s, "restart", qualityChangeThreshold, 0, 0)
             ELSE w1
     ELSE w

\* startBufferMonitoring (623-682); shorts is what checkIfShorts() returns
startBufferMonitoring(w, node, shorts) ==
  IF node = NoVideo \/ w.st.bufferCheckInterval THEN w
  ELSE [w EXCEPT !.st.videoElement = node,
                 !.intervals = @ + 1,
                 !.st.isShorts = shorts,
                 !.st.lastKnownQuality = getCurrentVideoQuality(w),
                 !.st.bufferCheckInterval = TRUE,
                 !.vid.listening = TRUE]

\* stopBufferMonitoring (687-699)
stopBufferMonitoring(w) ==
  LET w1 == [w EXCEPT !.st.bufferCheckInterval = FALSE,
                      !.intervals = IF w.st.bufferCheckInterval THEN @ - 1 ELSE @]
      w2 == IF w1.st.isBuffering THEN stopBuffering(w1) ELSE w1
  IN IF w2.thrown THEN w2 ELSE [w2 EXCEPT !.st.videoElement = NoVideo]

----------------------------------------------------------------------------
(* The state machine *)

World == [st |-> state, trk |-> tracker, vid |-> video, timers |-> timers,
          sent |-> << >>, did |-> << >>, thrown |-> FALSE, port |-> port,
          intervals |-> intervals]

\* the state a handler leaves; the interval is armed by startBufferMonitoring,
\* re-armed when its callback has run, and cleared by stopBufferMonitoring
Commit(w, ticked) ==
  /\ state' = w.st
  /\ tracker' = w.trk
  /\ video' = w.vid
  /\ timers' = w.timers
  /\ sent' = w.sent
  /\ did' = w.did
  /\ escaped' = w.thrown
  /\ tickRem' = IF ~w.st.bufferCheckInterval THEN 0
                ELSE IF ticked \/ ~state.bufferCheckInterval THEN checkInterval
                ELSE tickRem
  /\ pausedAtStart' = IF {"start", "forceStart"} \cap {w.did[i] : i \in 1..Len(w.did)} # {}
                      THEN video.paused
                      ELSE pausedAtStart
  /\ intervals' = w.intervals
  /\ lifecycle' = IF Lifecycle(w.sent) # << >>
                  THEN Lifecycle(w.sent)[Len(Lifecycle(w.sent))].status
                  ELSE IF state.videoElement = NoVideo /\ w.st.videoElement # NoVideo
                  THEN "none"
                  ELSE lifecycle
  /\ UNCHANGED <<config, feed, planned, port, answer>>

\* the page and the host act on the media element alone
Environment(v) ==
  /\ video' = v
  /\ escaped' = FALSE
  /\ sent' = << >>
  /\ did' = << >>
  /\ UNCHANGED <<state, tracker, timers, tickRem, config, feed, planned, port, pausedAtStart, intervals, answer, lifecycle>>

RemoveAt(seq, i) == [j \in 1..(Len(seq) - 1) |-> IF j < i THEN seq[j] ELSE seq[j + 1]]

WithoutTimer(i) == [World EXCEPT !.timers = RemoveAt(timers, i)]

Due(kind, i) == timers[i].kind = kind /\ timers[i].rem = 0

SomeDue == \/ state.bufferCheckInterval /\ tickRem = 0
           \/ \E i \in 1..Len(timers) : timers[i].rem = 0

NotPlanned == [by |-> "nobody", step |-> 0, diff |-> 0, ticks |-> 1]

NotAsked == [asked |-> FALSE, result |-> "none"]

InitialState ==
  [videoElement |-> NoVideo, originalPlaybackRate |-> 1, originalPlaybackTime |-> 0,
   isBuffering |-> FALSE, seekAttempts |-> 0, bufferCheckInterval |-> FALSE,
   lastKnownQuality |-> NoQuality, isShorts |-> FALSE,
   lastBufferEnd |-> 0, lastBufferAge |-> 0 - 1,
   consecutiveFailedAttempts |-> 0, qualityChangeDetected |-> FALSE,
   bufferingStrategy |-> "normal", seekStepMultiplier |-> One]

\* a page whose player has not yet loaded the media
InitialVideo ==
  [currentTime |-> 1000, playbackRate |-> 1, paused |-> FALSE,
   stage |-> 1, duration |-> MediaStages[1].duration, buffered |-> MediaStages[1].buffered,
   quality |-> NoQuality, switches |-> 0, broken |-> FALSE, listening |-> FALSE]

InitWith(maxAttempts) ==
  /\ state = InitialState
  /\ tracker = TrackerReset
  /\ video = InitialVideo
  /\ timers = << >>
  /\ tickRem = 0
  /\ sent = << >>
  /\ did = << >>
  /\ escaped = FALSE
  /\ config = [maxSeekAttempts |-> maxAttempts]
  /\ feed = << >>
  /\ planned = NotPlanned
  /\ port = TRUE
  /\ pausedAtStart = FALSE
  /\ intervals = 0
  /\ answer = NotAsked
  /\ lifecycle = "none"

(* Timers *)

Tick ==
  /\ state.bufferCheckInterval /\ tickRem = 0
  /\ Len(timers) < MaxTimers
  /\ Commit(tickCallback(World), TRUE)

FireSettle ==
  \E i \in 1..Len(timers) :
    /\ Due("settle", i)
    /\ Commit(settleCallback(WithoutTimer(i), timers[i]), FALSE)

FireRecover ==
  \E i \in 1..Len(timers) :
    /\ Due("recover", i)
    /\ Commit(forceBuffering(WithoutTimer(i)), FALSE)

FireRestart ==
  \E i \in 1..Len(timers) :
    /\ Due("restart", i)
    /\ Commit(startBuffering(WithoutTimer(i)), FALSE)

FireObserve ==
  \E i \in 1..Len(timers) :
    /\ Due("observe", i)
    /\ Commit(detectQualityChange(WithoutTimer(i)).w, FALSE)

Older(age) == IF age < 0 THEN age ELSE Min(age + 1, MaxAge)

\* 50 ms pass
Advance ==
  /\ ~SomeDue
  /\ \/ state.bufferCheckInterval
     \/ timers # << >>
     \/ Older(state.lastBufferAge) # state.lastBufferAge
  /\ timers' = [i \in 1..Len(timers) |-> [timers[i] EXCEPT !.rem = @ - 1]]
  /\ tickRem' = IF state.bufferCheckInterval THEN tickRem - 1 ELSE tickRem
  /\ state' = [state EXCEPT !.lastBufferAge = Older(@)]
  /\ tracker' = [tracker EXCEPT !.lastSampleAge = Older(@)]
  /\ escaped' = FALSE
  /\ sent' = << >>
  /\ did' = << >>
  /\ UNCHANGED <<video, config, feed, planned, port, pausedAtStart, intervals, answer, lifecycle>>

(* The binding interface *)

\* a <video> is found or added (setupVideoObserver 704-751)
SourceAvailable ==
  /\ ~state.bufferCheckInterval
  /\ \E shorts \in BOOLEAN : Commit(startBufferMonitoring(World, TheVideo, shorts), FALSE)

\* the <video> is removed, or the page is left (734-740, 756-778, 813-818)
SourceRemoved ==
  /\ state.videoElement # NoVideo
  /\ Commit(stopBufferMonitoring(World), FALSE)

(* The page *)

\* the resize event of the <video>
Resize ==
  /\ video.listening
  /\ Len(timers) < MaxTimers
  /\ Commit(resizeListener(World), FALSE)

\* the MutationObserver of the settings button (655-657); the button is not
\* touched again while the observer's timer is pending
MenuMutation ==
  /\ video.listening
  /\ Len(timers) < MaxTimers
  /\ \A i \in 1..Len(timers) : timers[i].kind # "observe"
  /\ Commit(setTimeout(World, "observe", observerDelay, 0, 0), FALSE)

\* the download goes on
MediaProgress ==
  \E j \in (video.stage + 1)..Len(MediaStages) :
    /\ getFurthestBufferedTime(MediaStages[j]) >= getFurthestBufferedTime(video)
    /\ Environment([video EXCEPT !.stage = j,
                                 !.duration = MediaStages[j].duration,
                                 !.buffered = MediaStages[j].buffered])

\* the download answers a seek: the first range grows by 3 s while the
\* seek's callback is pending
MediaGrowth ==
  /\ Len(video.buffered) = 1
  /\ \E i \in 1..Len(timers) : timers[i].kind = "settle"
  /\ video.buffered[1].end + 3000 <= MaxGrowth
  /\ Environment([video EXCEPT !.buffered[1].end = @ + 3000])

\* the player shows another quality, or none
QualitySwitch ==
  \E l \in Labels \cup {NoQuality} :
    /\ l # video.quality
    /\ video.switches < MaxSwitches
    /\ Environment([video EXCEPT !.quality = l, !.switches = @ + 1])

HostSeek ==
  \E p \in HostPositions :
    /\ p # video.currentTime
    /\ Environment([video EXCEPT !.currentTime = p])

HostSetRate ==
  \E r \in HostRates :
    /\ r # video.playbackRate
    /\ Environment([video EXCEPT !.playbackRate = r])

HostPlay ==
  /\ video.paused
  /\ Environment([video EXCEPT !.paused = FALSE])

\* the element is torn down
TearDown ==
  /\ ~video.broken
  /\ Environment([video EXCEPT !.broken = TRUE])

----------------------------------------------------------------------------
(* Spec: the host's world.  The source is bound and removed, the download *)
(* goes on, the host moves position and rate, the element is torn down;    *)
(* sessions of at most MaxSeekAttempts attempts.                           *)

Init == InitWith(MaxSeekAttempts)

Next ==
  \/ Tick
  \/ FireSettle
  \/ Advance
  \/ SourceAvailable
  \/ SourceRemoved
  \/ MediaProgress
  \/ HostSeek
  \/ HostSetRate
  \/ TearDown

Spec == Init /\ [][Next]_vars

(* SpecQuality: the player's quality changes under short sessions. *)

NextQuality ==
  \/ Tick
  \/ FireSettle
  \/ FireRestart
  \/ FireObserve
  \/ Advance
  \/ SourceAvailable
  \/ SourceRemoved
  \/ MediaProgress
  \/ QualitySwitch
  \/ Resize
  \/ MenuMutation

SpecQuality == Init /\ [][NextQuality]_vars

(* SpecLong: sessions of up to LongSeekAttempts attempts, long enough for  *)
(* both escalation thresholds and the recovery timer.                      *)

InitLong == InitWith(LongSeekAttempts)

NextLong ==
  \/ Tick
  \/ FireSettle
  \/ FireRecover
  \/ Advance
  \/ SourceAvailable
  \/ MediaProgress
  \/ HostPlay

SpecLong == InitLong /\ [][NextLong]_vars

(* SpecDecay: sessions of up to MidSeekAttempts attempts on a source whose *)
(* download answers the seeks, so that an escalated strategy decays.       *)

InitDecay == InitWith(MidSeekAttempts)

NextDecay ==
  \/ Tick
  \/ FireSettle
  \/ FireRecover
  \/ Advance
  \/ SourceAvailable
  \/ MediaProgress
  \/ MediaGrowth

SpecDecay == InitDecay /\ [][NextDecay]_vars

(* SpecBind: the page notifies of <video> nodes while a source is bound    *)
(* (nodes added, a second observer after a URL change), and the element   *)
(* may be torn down.                                                       *)

\* a <video> node is added while a source is bound (717-730)
SourceNotified ==
  /\ state.videoElement # NoVideo
  /\ \E node \in {TheVideo, AnotherVideo}, shorts \in BOOLEAN :
       Commit(startBufferMonitoring(World, node, shorts), FALSE)

NextBind ==
  \/ Tick
  \/ FireSettle
  \/ Advance
  \/ SourceAvailable
  \/ SourceNotified
  \/ SourceRemoved
  \/ MediaProgress
  \/ TearDown

SpecBind == Init /\ [][NextBind]_vars

(* SpecRestart: short sessions stopped by a change of quality and started *)
(* again by the restart timer; the source stays bound.                     *)

NextRestart ==
  \/ Tick
  \/ FireSettle
  \/ FireRestart
  \/ Advance
  \/ SourceAvailable
  \/ MediaProgress
  \/ QualitySwitch
  \/ Resize

SpecRestart == Init /\ [][NextRestart]_vars

(* SpecPort: short sessions with quality changes in a page whose extension *)
(* context is invalidated at some moment (the extension is reloaded or     *)
(* removed): from then on every chrome.runtime.sendMessage throws.         *)

PortDisconnected ==
  /\ port
  /\ port' = FALSE
  /\ escaped' = FALSE
  /\ sent' = << >>
  /\ did' = << >>
  /\ UNCHANGED <<state, tracker, video, timers, tickRem, config, feed, planned, pausedAtStart, intervals, answer, lifecycle>>

NextPort ==
  \/ Tick
  \/ FireSettle
  \/ FireRestart
  \/ Advance
  \/ SourceAvailable
  \/ SourceRemoved
  \/ MediaProgress
  \/ QualitySwitch
  \/ PortDisconnected

SpecPort == Init /\ [][NextPort]_vars

(* SpecStrategy: the Strategy Adapter alone, fed a sequence of outcomes.   *)

\* the runs of equal outcomes in a sequence of outcomes
Runs(seq) ==
  IF seq = << >> THEN 0
  ELSE 1 + Cardinality({i \in 1..(Len(seq) - 1) : seq[i] # seq[i + 1]})

\* one attempt's outcome reaches updateBufferingStrategy (504-507)
Feed ==
  /\ Len(feed) < MaxFeed
  /\ \E success \in BOOLEAN :
       /\ Runs(Append(feed, success)) <= MaxRuns
       /\ state' = updateBufferingStrategy(state, success)
       /\ feed' = Append(feed, success)
  /\ UNCHANGED <<tracker, video, timers, tickRem, sent, did, escaped, config, planned, port, pausedAtStart, intervals, answer, lifecycle>>

\* a start, a stop or a quality change resets the strategy
ResetStrategy ==
  /\ feed # << >>
  /\ state' = resetBufferingStrategy(state)
  /\ feed' = << >>
  /\ UNCHANGED <<tracker, video, timers, tickRem, sent, did, escaped, config, planned, port, pausedAtStart, intervals, answer, lifecycle>>

NextStrategy ==
  \/ Feed
  \/ ResetStrategy

SpecStrategy == Init /\ [][NextStrategy]_vars


(* SpecTracker: connectionTracker alone, under any sequence of update and  *)
(* reset calls, on buffered extents that grow, shrink or are empty, with   *)
(* or without time passing between the calls.                              *)

\* the end of the one buffered range, in ms; 0 for no range
TrackerExtents == {0, 1000, 2000, 3000, 4000}

\* connectionTracker.update(video) (73-90)
UpdateTracker ==
  \E e \in TrackerExtents :
    /\ video' = [video EXCEPT !.buffered = IF e = 0 THEN << >> ELSE <<Range(0, e)>>]
    /\ tracker' = trackerUpdate(tracker, video')
    /\ did' = IF /\ Len(tracker.samples) = connectionSpeedSampleSize
                 /\ tracker'.samples # tracker.samples
              THEN <<"shift">>
              ELSE << >>
    /\ UNCHANGED <<state, timers, tickRem, sent, escaped, config, feed, planned, port,
                   pausedAtStart, intervals, answer, lifecycle>>

\* connectionTracker.reset() (67-71)
ResetTracker ==
  /\ tracker # TrackerReset
  /\ tracker' = TrackerReset
  /\ did' = << >>
  /\ UNCHANGED <<state, video, timers, tickRem, sent, escaped, config, feed, planned, port,
                 pausedAtStart, intervals, answer, lifecycle>>

\* 50 ms pass
Elapse ==
  /\ Older(tracker.lastSampleAge) # tracker.lastSampleAge
  /\ tracker' = [tracker EXCEPT !.lastSampleAge = Older(@)]
  /\ did' = << >>
  /\ UNCHANGED <<state, video, timers, tickRem, sent, escaped, config, feed, planned, port,
                 pausedAtStart, intervals, answer, lifecycle>>

NextTracker ==
  \/ UpdateTracker
  \/ ResetTracker
  \/ Elapse

SpecTracker == Init /\ [][NextTracker]_vars

(* SpecInspector: isVideoFullyBuffered alone, asked about sources of every *)
(* duration, position and set of buffered ranges, readable or torn down.   *)

\* video.duration in ms: not finite, 10 s, 20 s
InspectDurations == {NaN, 10000, 20000}
\* video.currentTime in ms
InspectPositions == {0, 999, 1000, 1001, 9800}
\* the buffered ranges: TimeRanges are ordered and disjoint
InspectStarts == {0, 1000, 5000, 9600}
InspectEnds == {4000, 9499, 9500, 9501, 19500, 20000}
InspectRanges == {r \in [start : InspectStarts, end : InspectEnds] : r.start < r.end}
InspectBuffered ==
  {b \in UNION {[1..n -> InspectRanges] : n \in 0..MaxRanges} :
     \A i \in 1..(Len(b) - 1) : b[i].end < b[i + 1].start}

\* the page shows a source
InspectorSource ==
  \E d \in InspectDurations, p \in InspectPositions, b \in InspectBuffered, torn \in BOOLEAN :
    /\ video' = [InitialVideo EXCEPT !.duration = d, !.currentTime = p, !.buffered = b,
                                     !.broken = torn]
    /\ answer' = NotAsked
    /\ UNCHANGED <<state, tracker, timers, tickRem, sent, did, escaped, config, feed, planned,
                   port, pausedAtStart, intervals, lifecycle>>

\* isVideoFullyBuffered(video) is called (182-209): it reads, and returns or throws
Inspect ==
  /\ ~answer.asked
  /\ answer' = [asked |-> TRUE,
                result |-> IF isVideoFullyBufferedThrows(video) THEN "throws"
                           ELSE IF isVideoFullyBuffered(video) THEN "true"
                           ELSE "false"]
  /\ UNCHANGED <<state, tracker, video, timers, tickRem, sent, did, escaped, config, feed,
                 planned, port, pausedAtStart, intervals, lifecycle>>

NextInspector ==
  \/ InspectorSource
  \/ Inspect

SpecInspector == Init /\ [][NextInspector]_vars

(* SpecPlanner: the Step-Size Planner alone, on every combination of a      *)
(* duration, a buffered end, an earlier measurement and its age, a          *)
(* multiplier and the short-form flag; called by itself or by an attempt.   *)

\* video.duration in ms: not loaded, and one in each band of lines 276-287
PlanDurations == {NaN, 30000, 200000, 600000, 1200000, 2000000}
\* the end of the buffered range, in ms
PlanBufferEnds == {4000, 4300, 4700, 5500, 7000, 10000}
\* state.lastBufferEnd: never measured, or 4 s
PlanLastEnds == {0, 4000}
\* the time since state.lastBufferTime: never, none, one second
PlanAges == {0 - 1, 0, 20}
\* state.seekStepMultiplier
PlanMultipliers == {One, MinusTenth(OneAndHalf), OneAndHalf, Two}

PlanInput(d, e, l, a, m, shorts) ==
  /\ state' = [InitialState EXCEPT !.videoElement = TheVideo,
                                   !.isBuffering = TRUE,
                                   !.isShorts = shorts,
                                   !.lastBufferEnd = l,
                                   !.lastBufferAge = a,
                                   !.seekStepMultiplier = m,
                                   !.bufferingStrategy = IF m = One THEN "normal"
                                                         ELSE "aggressive"]
  /\ video' = [InitialVideo EXCEPT !.duration = d, !.buffered = <<Range(0, e)>>]
  /\ UNCHANGED <<tracker, timers, tickRem, sent, did, escaped, config, feed, port, pausedAtStart, intervals, answer, lifecycle>>

\* getSeekStepSize is called; the speed is the one it measures itself
PlanAlone ==
  \E d \in PlanDurations, e \in PlanBufferEnds, l \in PlanLastEnds, a \in PlanAges,
     m \in PlanMultipliers, shorts \in BOOLEAN :
    /\ planned = NotPlanned
    /\ PlanInput(d, e, l, a, m, shorts)
    /\ planned' = [by |-> "planner",
                   step |-> getSeekStepSize(state', video').step,
                   diff |-> calculateBufferSpeed(state', video').diff,
                   ticks |-> calculateBufferSpeed(state', video').ticks]

\* an attempt measures the speed and then calls getSeekStepSize
PlanInAttempt ==
  \E d \in PlanDurations, e \in PlanBufferEnds, l \in PlanLastEnds, a \in PlanAges,
     m \in PlanMultipliers, shorts \in BOOLEAN :
    /\ planned = NotPlanned
    /\ PlanInput(d, e, l, a, m, shorts)
    /\ planned' = [by |-> "attempt",
                   step |-> attemptPlan(state', video').step,
                   diff |-> attemptPlan(state', video').diff,
                   ticks |-> attemptPlan(state', video').ticks]

NextPlanner ==
  \/ PlanAlone
  \/ PlanInAttempt

SpecPlanner == Init /\ [][NextPlanner]_vars

----------------------------------------------------------------------------
(* The claims *)

Elems(seq) == {seq[i] : i \in 1..Len(seq)}

Count(seq, x) == Cardinality({i \in 1..Len(seq) : seq[i] = x})

CountStatus(msgs, status) == Cardinality({i \in 1..Len(msgs) : msgs[i].status = status})

\* seq has an element of status a before one of status b
InOrder(msgs, a, b) ==
  \E i, j \in 1..Len(msgs) : i < j /\ msgs[i].status = a /\ msgs[j].status = b

Pending(kinds) == \E i \in 1..Len(timers) : timers[i].kind \in kinds /\ timers[i].rem > 0

\* how many of the last outcomes of seq are b
RECURSIVE TrailingRun(_, _)
TrailingRun(seq, b) ==
  IF seq = << >> \/ seq[Len(seq)] # b THEN 0
  ELSE 1 + TrailingRun(SubSeq(seq, 1, Len(seq) - 1), b)

AtMostTwo(x) == x.t < 20 \/ (x.t = 20 /\ x.e <= 0)

\* C1: a tick that fires while the callback of an earlier seek or a recovery
\* timer is still pending is a no-op: it issues no seek, saves no position
\* (schedules no callback) and changes no controller state or source state.
C1_TickWhilePendingIsNoOp ==
  [][ (Tick /\ Pending({"settle", "recover"}))
        => /\ "seek" \notin Elems(did')
           /\ timers' = timers
           /\ state' = state
           /\ video' = video ]_vars

\* C2: a stop leaves the source at the position and rate captured at the
\* most recent start; and while the controller stays Idle, a source that is at
\* the captured position and rate stays there in every step but the host's
\* own moves.
C2_Restoration ==
  [][ /\ "stop" \in Elems(did')
         => /\ video'.currentTime = state'.originalPlaybackTime
            /\ video'.playbackRate = state'.originalPlaybackRate
      /\ ( /\ ~state.isBuffering /\ ~state'.isBuffering
           /\ video.currentTime = state.originalPlaybackTime
           /\ video.playbackRate = state.originalPlaybackRate
           /\ ~HostSeek /\ ~HostSetRate )
         => /\ video'.currentTime = state'.originalPlaybackTime
            /\ video'.playbackRate = state'.originalPlaybackRate ]_vars

\* C3: while no source is bound, no step writes the position of the source
\* (no restore, no seek) and none changes the attempt counter, the failure
\* counter or the strategy.
C3_NothingRunsAfterUnbind ==
  [][ (state.videoElement = NoVideo /\ state'.videoElement = NoVideo)
        => /\ "restore" \notin Elems(did')
           /\ "seek" \notin Elems(did')
           /\ state'.seekAttempts = state.seekAttempts
           /\ state'.consecutiveFailedAttempts = state.consecutiveFailedAttempts
           /\ state'.bufferingStrategy = state.bufferingStrategy
           /\ state'.seekStepMultiplier = state.seekStepMultiplier ]_vars

\* C4: no handler (tick, timer callback, start, stop, unbind) lets a fault
\* of the media source propagate to the host.
C4_NoFaultEscapes == ~escaped

\* C5: a step in which the controller, while Buffering, takes note of a
\* quality label different from the one it knew (both non-null) sends
\* quality_change and then complete, and schedules the restart; and the
\* started message of a restart carries the label the player shows, with the
\* attempt counter at 0.
C5_QualityChangeRestarts ==
  [][ /\ ( /\ state.isBuffering
           /\ state.lastKnownQuality # NoQuality
           /\ state'.lastKnownQuality # NoQuality
           /\ state'.lastKnownQuality # state.lastKnownQuality )
         => /\ InOrder(sent', "quality_change", "complete")
            /\ \E i \in 1..Len(timers') : timers'[i].kind = "restart"
      /\ (FireRestart /\ CountStatus(sent', "started") > 0)
         => /\ \A i \in 1..Len(sent') :
                 sent'[i].status = "started" => sent'[i].quality = video.quality
            /\ state'.seekAttempts = 0 ]_vars

\* C6: a complete message sent once the attempt counter has reached
\* maxSeekAttempts carries exactly maxSeekAttempts attempts, and a handler
\* seeks only in a session: one that was on, or one the handler began.
C6_BudgetExhausted ==
  [][ /\ \A i \in 1..Len(sent') :
           (sent'[i].status = "complete" /\ state.seekAttempts >= config.maxSeekAttempts)
             => sent'[i].attempts = config.maxSeekAttempts
      /\ "seek" \in Elems(did')
           => \/ state.isBuffering
              \/ "start" \in Elems(did')
              \/ "forceStart" \in Elems(did') ]_vars

\* C7: stopBuffering called while Idle changes nothing and sends nothing; and
\* every complete message closes a session: a handler sends as many as the
\* sessions it ends, so no two follow each other without a start between.
IdleStopIsNoOp ==
  ~state.isBuffering =>
    LET w == stopBuffering(World)
    IN /\ w.st = state
       /\ w.trk = tracker
       /\ w.vid = video
       /\ w.timers = timers
       /\ w.sent = << >>
       /\ ~w.thrown

CompleteClosesSession ==
  CountStatus(sent', "complete")
    = (IF state.isBuffering THEN 1 ELSE 0)
      + Count(did', "start") + Count(did', "forceStart")
      - (IF state'.isBuffering THEN 1 ELSE 0)

C8_StrategyInvariant ==
  /\ state.bufferingStrategy \in {"normal", "aggressive"}
  /\ state.bufferingStrategy = "normal" => state.seekStepMultiplier = One
  /\ state.bufferingStrategy = "aggressive"
       => ~LessThanOne(state.seekStepMultiplier) /\ AtMostTwo(state.seekStepMultiplier)

\* an escalated strategy has decayed to the last value above 1.0
C8_Witness ==
  /\ state.isBuffering
  /\ state.bufferingStrategy = "aggressive"
  /\ state.seekStepMultiplier.t = 11

\* C9: after 10 or more consecutive failures the strategy is aggressive with
\* multiplier exactly 2.0, and from the 5th to the 9th it is aggressive with
\* multiplier exactly 1.5.
C9_MonotonicEscalation ==
  LET k == TrailingRun(feed, FALSE)
  IN /\ k >= 10 => /\ state.bufferingStrategy = "aggressive"
                   /\ state.seekStepMultiplier = Two
     /\ k \in 5..9 => /\ state.bufferingStrategy = "aggressive"
                      /\ state.seekStepMultiplier = OneAndHalf

\* ten failures from rest
C9_Witness ==
  /\ Len(feed) = 10
  /\ TrailingRun(feed, FALSE) = 10
  /\ state.seekStepMultiplier = Two

\* C10: after 5 to 9 consecutive failures (aggressive, 1.5), five consecutive
\* successes leave the strategy normal with multiplier exactly 1.0, and
\* before the fifth the strategy is aggressive with a multiplier not below 1.0.
C10_Decay ==
  LET s == TrailingRun(feed, TRUE)
      k == TrailingRun(SubSeq(feed, 1, Len(feed) - s), FALSE)
  IN k \in 5..9 =>
       /\ s >= 5 => /\ state.bufferingStrategy = "normal"
                    /\ state.seekStepMultiplier = One
       /\ s \in 1..4 => /\ state.bufferingStrategy = "aggressive"
                        /\ ~LessThanOne(state.seekStepMultiplier)
                        /\ state.seekStepMultiplier.t = 15 - s

\* five failures, then five successes
C10_Witness ==
  /\ TrailingRun(feed, TRUE) = 5
  /\ TrailingRun(SubSeq(feed, 1, Len(feed) - 5), FALSE) = 5
  /\ state.bufferingStrategy = "normal"


\* the planner's tables as the specification states them: the base step in
\* seconds by duration, and the throughput factor in tenths by speed
ClaimedBase(duration) ==
  IF duration < 60000 THEN 5
  ELSE IF duration < 300000 THEN 10
  ELSE IF duration < 900000 THEN 20
  ELSE IF duration < 1800000 THEN 30
  ELSE 45

ClaimedFactor10(diff, ticks) ==
  IF diff > 250 * ticks THEN 15
  ELSE IF diff > 100 * ticks THEN 12
  ELSE IF diff < 25 * ticks THEN 6
  ELSE IF diff < 50 * ticks THEN 8
  ELSE 10

ClaimedStep(duration, diff, ticks, multiplier) ==
  Max(5000, Min(60000, ClaimedBase(duration) * ClaimedFactor10(diff, ticks) * multiplier.t * 10))

\* C11: whatever the duration (finite or not), the speed, the multiplier and
\* the short-form flag, the step the planner returns lies between
\* adaptiveSeekMinimum and adaptiveSeekMaximum.
C11_StepWithinBounds ==
  planned.by # "nobody" =>
    adaptiveSeekMinimum <= planned.step /\ planned.step <= adaptiveSeekMaximum

\* the product 45 x 1.5 x 2.0 = 135 s was cut to the maximum
C11_Witness ==
  /\ planned.by = "planner"
  /\ ~state.isShorts
  /\ video.duration = 2000000
  /\ state.seekStepMultiplier = Two
  /\ planned.diff > 250 * planned.ticks
  /\ planned.step = adaptiveSeekMaximum

\* C12: for a regular asset of 200 s with no earlier measurement of the
\* buffering speed and the rest strategy, the step is exactly 10 s.
C12_ScenarioA ==
  ( /\ planned.by # "nobody"
    /\ ~state.isShorts
    /\ video.duration = 200000
    /\ (state.lastBufferEnd = 0 \/ state.lastBufferAge < 0)
    /\ state.bufferingStrategy = "normal"
    /\ state.seekStepMultiplier = One )
  => planned.step = 10000

\* C13: for a regular asset of finite duration, the step of an attempt is
\* clamp(base(duration) x factor(speed) x multiplier, 5 s, 60 s), the speed
\* being the buffering speed the attempt measured.
C13_StepOfAnAttempt ==
  (planned.by = "attempt" /\ ~state.isShorts /\ isFinite(video.duration))
  => planned.step
       = ClaimedStep(video.duration, planned.diff, planned.ticks, state.seekStepMultiplier)

\* C14 (Scenario C): an attempt evaluated with at most 0.5 s between the
\* furthest buffered end and the duration stops the session: the controller
\* is Idle, one complete event is sent, and no seek is made and no seek
\* callback is armed, whatever the attempt counter is.  An attempt is
\* evaluated when the tick or the recovery timer finds a bound source that is
\* not fully buffered around the playback position.
SettleTimers(ts) == Cardinality({i \in 1..Len(ts) : ts[i].kind = "settle"})

NearEnd(v) == isFinite(v.duration) /\ v.duration - getFurthestBufferedTime(v) <= 500

AttemptEvaluated ==
  /\ Tick \/ FireRecover
  /\ state.videoElement # NoVideo
  /\ ~video.broken
  /\ ~isVideoFullyBuffered(video)

C14_ScenarioC ==
  [][AttemptEvaluated /\ NearEnd(video)
       => /\ ~state'.isBuffering
          /\ CountStatus(sent', "complete") = 1
          /\ Count(did', "seek") = 0
          /\ SettleTimers(timers') <= SettleTimers(timers)]_vars

\* a session stopped near the end with attempts made and attempts left
C14_Witness ==
  /\ NearEnd(video)
  /\ ~isVideoFullyBuffered(video)
  /\ ~state.isBuffering
  /\ did = <<"stop">>
  /\ \E i \in 1..Len(sent) :
        /\ sent[i].status = "complete"
        /\ sent[i].attempts > 0
        /\ sent[i].attempts < config.maxSeekAttempts

\* C15: a fault while reading or writing the position during an attempt, in
\* the seek or in the seek's callback, is caught and counted as a failed
\* attempt: the attempt counter and consecutiveFailedAttempts are both one
\* more than they were when the attempt began, and the session ends in that
\* handler only when consecutiveFailedAttempts has reached 10 (the complete
\* event then carries the incremented attempt counter).
AttemptBase ==
  IF "start" \in Elems(did')
  THEN [seekAttempts |-> 0, consecutiveFailedAttempts |-> 0]
  ELSE [seekAttempts |-> state.seekAttempts,
        consecutiveFailedAttempts |-> state.consecutiveFailedAttempts]

CountedAsFailedAttempt ==
     IF state'.isBuffering
     THEN /\ state'.seekAttempts = AttemptBase.seekAttempts + 1
          /\ state'.consecutiveFailedAttempts = AttemptBase.consecutiveFailedAttempts + 1
     ELSE /\ AttemptBase.consecutiveFailedAttempts + 1 >= 10
          /\ \E i \in 1..Len(sent') :
                /\ sent'[i].status = "complete"
                /\ sent'[i].attempts = AttemptBase.seekAttempts + 1

FaultInSession ==
  /\ {"seekError", "callbackError"} \cap Elems(did') # {}
  /\ state.isBuffering \/ {"start", "forceStart"} \cap Elems(did') # {}

C15_FaultIsFailedAttempt == [][FaultInSession => CountedAsFailedAttempt]_vars

\* C16: a failure to deliver an event never affects the controller: what
\* every handler leaves in the controller's state, the throughput estimator,
\* the media element and the timers, and whether an exception leaves it, is
\* the same whether its sends succeed or throw.
OtherPort(w) == [w EXCEPT !.port = ~w.port]

SameOutcome(w) ==
  /\ w.st = state'
  /\ w.trk = tracker'
  /\ w.vid = video'
  /\ w.timers = timers'
  /\ w.thrown = escaped'

C16_SendFailureChangesNothing ==
  [][/\ Tick => SameOutcome(tickCallback(OtherPort(World)))
     /\ FireSettle =>
          \E i \in 1..Len(timers) :
            /\ Due("settle", i)
            /\ SameOutcome(settleCallback(OtherPort(WithoutTimer(i)), timers[i]))
     /\ FireRestart =>
          \E i \in 1..Len(timers) :
            /\ Due("restart", i)
            /\ SameOutcome(startBuffering(OtherPort(WithoutTimer(i))))
     /\ SourceRemoved => SameOutcome(stopBufferMonitoring(OtherPort(World)))]_vars

\* a handler whose sends all failed: a session was started and an attempt
\* made, or a session was stopped, and nothing was delivered
C16_Witness ==
  /\ ~port
  /\ sent = << >>
  /\ \/ <<"start", "seek">> = did
     \/ <<"stop">> = did /\ state.videoElement # NoVideo

\* C17: the controller restores the pause state on exit: after a stop the
\* media element's paused flag is what it was when the session began.
\* (Checked where the host never plays or pauses: every change of the flag
\* is the controller's.)
C17_PauseRestored == "stop" \in Elems(did) => video.paused = pausedAtStart

\* C18: every transition from Idle to Buffering is a start: it captures the
\* playback position and rate, resets the attempt counter to 0 and the
\* strategy to normal / 1.0 / 0 failures, records the quality label, sends
\* exactly one started event, and then performs one attempt (a seek, a
\* failed seek, or the stop of a session that has nothing to do).
SessionBegins == ~state.isBuffering /\ {"start", "forceStart"} \cap Elems(did') # {}

AttemptsMade(d) == Count(d, "seek") + Count(d, "seekError") + Count(d, "stop")

C18_EveryStartIsAStart ==
  [][SessionBegins =>
       /\ CountStatus(sent', "started") = 1
       /\ state'.originalPlaybackTime = video.currentTime
       /\ state'.originalPlaybackRate = video.playbackRate
       /\ state'.lastKnownQuality = video.quality
       /\ state'.seekAttempts = (IF state'.isBuffering THEN Count(did', "seekError") ELSE 0)
       /\ state'.consecutiveFailedAttempts
            = (IF state'.isBuffering THEN Count(did', "seekError") ELSE 0)
       /\ state'.bufferingStrategy = "normal"
       /\ state'.seekStepMultiplier = One
       /\ AttemptsMade(did') = 1]_vars

\* C19: every transition from Buffering to Idle clears the quality-change
\* flag, resets the strategy, empties the throughput estimator, sends
\* exactly one complete event carrying the attempt count accumulated in
\* that session, and leaves the attempt counter at 0.  The count of a
\* session that began in the same handler is the attempts that handler
\* made; otherwise it is the counter the session had, plus those.
SessionEnds == "stop" \in Elems(did')

AccumulatedAttempts ==
  (IF SessionBegins THEN 0 ELSE state.seekAttempts) + Count(did', "seekError")

C20_UnbindStops ==
  [][SourceRemoved =>
       /\ ~state'.isBuffering
       /\ ~state'.bufferCheckInterval
       /\ tickRem' = 0
       /\ state'.videoElement = NoVideo
       /\ CountStatus(sent', "complete") = (IF state.isBuffering THEN 1 ELSE 0)]_vars

\* C21: whenever a quality change is detected while the controller is
\* Buffering, by the check inside an attempt, by the resize listener or by
\* the observer of the quality menu, the controller performs the hard
\* restart: the detecting handler stops the session and arms the restart.
\* No detection while Buffering leaves the session running.
QualityChangeNoted ==
  /\ state.isBuffering
  /\ state.lastKnownQuality # NoQuality
  /\ state'.lastKnownQuality # NoQuality
  /\ state'.lastKnownQuality # state.lastKnownQuality

C21_DetectionRestarts ==
  [][QualityChangeNoted =>
       /\ "stop" \in Elems(did')
       /\ ~state'.isBuffering
       /\ \E i \in 1..Len(timers') : timers'[i].kind = "restart"]_vars

\* C22: exactly one media source is bound at a time: while a source is
\* bound, a further source-available notification leaves the bound source,
\* the controller state and the tick timer unchanged, and at most one
\* periodic tick timer is ever active.
C22_OneSourceBound ==
  /\ [](intervals <= 1)
  /\ [][SourceNotified =>
          /\ state' = state
          /\ tickRem' = tickRem
          /\ intervals' = intervals]_vars

\* C23: in every reachable state the multiplier is 1.0 if and only if the
\* strategy is normal; in particular the strategy is never aggressive with
\* a multiplier of 1.0.
C23_RestState == (state.seekStepMultiplier = One) <=> (state.bufferingStrategy = "normal")

\* an escalated strategy one success away from rest: the multiplier is the
\* double just below 1.1, and the next success yields less than 1.0
C23_Witness ==
  /\ state.bufferingStrategy = "aggressive"
  /\ state.seekStepMultiplier.t = 11
  /\ TrailingRun(feed, TRUE) = 9
  /\ LessThanOne(MinusTenth(state.seekStepMultiplier))

\* C24: the multiplier only increases on failures and only decreases on
\* successes: feeding a failed attempt to updateBufferingStrategy never
\* yields a multiplier lower than before, and feeding a success never
\* yields a higher one.
AtMost(x, y) == x.t < y.t \/ (x.t = y.t /\ x.e <= y.e)

C24_MonotoneMultiplier ==
  [][Feed =>
       IF feed'[Len(feed')]
       THEN AtMost(state'.seekStepMultiplier, state.seekStepMultiplier)
       ELSE AtMost(state.seekStepMultiplier, state'.seekStepMultiplier)]_vars

\* C25: after a stop caused by a quality change the controller waits the
\* quality-change settle delay before forcing again: while the restart
\* timer armed by that stop has not expired the controller stays Idle and no
\* handler starts a session or seeks, whichever timer or tick fires.
RestartPending == \E i \in 1..Len(timers) : timers[i].kind = "restart" /\ timers[i].rem > 0

C25_SettleDelayObserved ==
  [][RestartPending =>
       /\ ~state'.isBuffering
       /\ {"start", "forceStart", "seek"} \cap Elems(did') = {}]_vars

\* C26: when the seek's callback finishes with consecutiveFailedAttempts > 5
\* and the attempt counter a multiple of 5, a recovery delay of 500 ms is
\* inserted before the next attempt: while the recovery timer it armed has
\* not expired, no handler seeks.
RecoveryPending == \E i \in 1..Len(timers) : timers[i].kind = "recover" /\ timers[i].rem > 0

C26_RecoveryDelayObserved ==
  [][RecoveryPending => {"seek", "seekError"} \cap Elems(did') = {}]_vars

\* C27: detectQualityChange detects a change exactly when the last known
\* label and the current label are both non-null and differ, and the
\* quality_change message it sends carries the label known before the
\* change as its old value and the label just read as its new value, the
\* two being different.
LabelsDiffer ==
  /\ state.lastKnownQuality # NoQuality
  /\ video.quality # NoQuality
  /\ state.lastKnownQuality # video.quality

C27_QualityChangeEvent ==
  [][FireObserve =>
       /\ CountStatus(sent', "quality_change") = (IF LabelsDiffer THEN 1 ELSE 0)
       /\ state'.qualityChangeDetected = (LabelsDiffer \/ state.qualityChangeDetected)
       /\ \A i \in 1..Len(sent') :
            sent'[i].status = "quality_change"
              => /\ sent'[i].from = state.lastKnownQuality
                 /\ sent'[i].quality = video.quality
                 /\ sent'[i].from # sent'[i].quality]_vars

\* C28: each seek issued by an attempt is followed by exactly one callback
\* (every seek arms one settle timer and every callback consumes one), and
\* the callback, on an element that can be written, feeds
\* updateBufferingStrategy once, with success iff the furthest buffered end
\* has grown by more than 1 s since the seek, restores the position saved
\* just before the seek, and increments the attempt counter by one.
StrategyOf(st) ==
  <<st.bufferingStrategy, st.seekStepMultiplier, st.consecutiveFailedAttempts>>

C28_OneCallbackPerSeek ==
  [][/\ SettleTimers(timers')
          = SettleTimers(timers) + Count(did', "seek") - (IF FireSettle THEN 1 ELSE 0)
     /\ (FireSettle /\ ~video.broken) =>
          \E i \in 1..Len(timers) :
            /\ Due("settle", i)
            /\ StrategyOf(state')
                 = StrategyOf(updateBufferingStrategy(
                     state, getFurthestBufferedTime(video) > timers[i].prev + 1000))
            /\ video'.currentTime = timers[i].pos
            /\ state'.seekAttempts = state.seekAttempts + 1]_vars

\* a callback has just run in a session after the furthest end grew by
\* exactly 1 s: the position is back, the attempt is counted as a failure
C28_Witness ==
  /\ state.isBuffering
  /\ did = <<"restore">>
  /\ state.seekAttempts = 1
  /\ state.consecutiveFailedAttempts = 1
  /\ getFurthestBufferedTime(video) = 5000

\* C29: the seek target of every attempt is min(furthest buffered end +
\* step, duration - 0.1), the step being the planner's for the state the
\* attempt is made in; hence it is strictly greater than the furthest
\* buffered end at the time of the seek and never exceeds duration - 0.1.
Seeks == "seek" \in Elems(did')

C29_SeekTarget ==
  [][Seeks =>
       LET furthest == getFurthestBufferedTime(video)
           step == getSeekStepSize(state', video).step
       IN /\ isFinite(video.duration)
          /\ video'.currentTime = Min(furthest + step, video.duration - 100)
          /\ video'.currentTime > furthest
          /\ video'.currentTime <= video.duration - 100]_vars

\* a seek has just been bounded by the duration: the position is 0.1 s
\* before the end and beyond the furthest buffered end
C29_Witness ==
  /\ "seek" \in Elems(did)
  /\ video.currentTime = video.duration - 100
  /\ getFurthestBufferedTime(video) < video.currentTime

\* C30: connectionTracker is a bounded strict FIFO: after any sequence of
\* update and reset calls it holds at most 5 samples, each greater than 0;
\* an update adds a sample only if an earlier baseline exists, time has
\* passed since it and the buffered bytes have increased, the sample being
\* appended at the end; and an insert at capacity evicts the oldest sample.
SampleAdded ==
  /\ Len(video'.buffered) > 0
  /\ tracker.lastSampleAge > 0
  /\ calculateBufferedBytes(video') > tracker.lastBufferedBytes

C30_BoundedFifo ==
  /\ [](/\ Len(tracker.samples) <= connectionSpeedSampleSize
        /\ \A i \in 1..Len(tracker.samples) : tracker.samples[i].bytes > 0)
  /\ [][UpdateTracker =>
          LET n == Len(tracker.samples)
              kept == IF n = connectionSpeedSampleSize THEN Tail(tracker.samples)
                      ELSE tracker.samples
          IN IF SampleAdded
             THEN /\ Len(tracker'.samples) = Len(kept) + 1
                  /\ SubSeq(tracker'.samples, 1, Len(kept)) = kept
                  /\ tracker'.samples[Len(kept) + 1].bytes
                       = calculateBufferedBytes(video') - tracker.lastBufferedBytes
             ELSE tracker'.samples = tracker.samples]_vars

\* an insert at capacity has just evicted the oldest sample
C30_Witness ==
  /\ did = <<"shift">>
  /\ Len(tracker.samples) = connectionSpeedSampleSize


(* SpecFair: a bound source under the scheduling of the event loop: time   *)
(* passes, and an interval or a timeout that is due has its callback run.  *)
(* The page is under no obligation: the download may stall for ever, and   *)
(* the element may be torn down.  The source stays bound, and no quality   *)
(* label is ever shown, so none changes.                                   *)

NextFair ==
  \/ Tick
  \/ FireSettle
  \/ Advance
  \/ SourceAvailable
  \/ MediaProgress
  \/ TearDown

\* ENABLED <<Tick>>_vars and ENABLED <<FireSettle>>_vars: a callback that is
\* due always changes the state (the interval is re-armed, the timer is gone)
TickDue == state.bufferCheckInterval /\ tickRem = 0 /\ Len(timers) < MaxTimers
SettleDue == \E i \in 1..Len(timers) : Due("settle", i)

\* WF_vars(Advance) /\ WF_vars(Tick) /\ WF_vars(FireSettle), the last two by
\* the definition of WF with ENABLED written as the callback's guard
EventLoop ==
  /\ WF_vars(Advance)
  /\ []<>(~TickDue) \/ []<><<Tick>>_vars
  /\ []<>(~SettleDue) \/ []<><<FireSettle>>_vars

SpecFair == Init /\ [][NextFair]_vars /\ EventLoop

\* C31: every Buffering session terminates: with ticks and timers scheduled
\* fairly and no change of quality, a controller that is Buffering is
\* eventually Idle, whether or not the buffered extent grows.
C31_SessionsTerminate == state.isBuffering ~> ~state.isBuffering


\* C32: isVideoFullyBuffered returns true iff the duration is finite and
\* some buffered range has start <= current position and end >= duration -
\* 0.5 s; it returns false when there are no buffered ranges or the duration
\* is not finite; and it never changes the source.  (The position of a
\* torn-down element cannot be read: the result is stated for a source that
\* can be read, and for any source without ranges.)
Covered(v) ==
  /\ isFinite(v.duration)
  /\ \E i \in 1..Len(v.buffered) :
        v.buffered[i].start <= v.currentTime /\ v.buffered[i].end >= v.duration - 500

C32_FullyBufferedPredicate ==
  [][Inspect =>
       /\ video' = video
       /\ ~video.broken => (answer'.result = "true" <=> Covered(video))
       /\ ~video.broken => answer'.result \in {"true", "false"}
       /\ Len(video.buffered) = 0 => answer'.result = "false"
       /\ (~video.broken /\ ~isFinite(video.duration)) => answer'.result = "false"]_vars

\* true was returned for a source whose second range begins before the
\* position and ends exactly 0.5 s before the end
C32_Witness ==
  /\ answer.asked
  /\ answer.result = "true"
  /\ Len(video.buffered) = 2
  /\ video.buffered[2].start <= video.currentTime
  /\ video.buffered[1].start > 0
  /\ video.buffered[2].end = video.duration - 500


\* C33: the lifecycle events of one bound source strictly alternate: the
\* started and complete events delivered begin with started and no two of a
\* kind follow each other, so every complete event and every progress event
\* comes after the started event of its session.
LastLifecycle(prev, msgs, i) ==
  LET before == Lifecycle(SubSeq(msgs, 1, i - 1))
  IN IF before = << >> THEN prev ELSE before[Len(before)].status

C33_LifecycleAlternates ==
  [][\A i \in 1..Len(sent') :
       /\ sent'[i].status = "started" => LastLifecycle(lifecycle, sent', i) # "started"
       /\ sent'[i].status = "complete" => LastLifecycle(lifecycle, sent', i) = "started"
       /\ sent'[i].status = "progress" => LastLifecycle(lifecycle, sent', i) = "started"]_vars


\* C34: whenever the controller is Idle its session state is at rest: the
\* attempt counter is 0, consecutiveFailedAttempts is 0 and the strategy is
\* normal with multiplier 1.0; and no timer callback changes any of them
\* while the controller is Idle.
AtRest(st) ==
  /\ st.seekAttempts = 0
  /\ st.consecutiveFailedAttempts = 0
  /\ st.bufferingStrategy = "normal"
  /\ st.seekStepMultiplier = One

SessionState(st) ==
  <<st.seekAttempts, st.consecutiveFailedAttempts, st.bufferingStrategy, st.seekStepMultiplier>>

C34_IdleAtRest ==
  /\ [](~state.isBuffering => AtRest(state))
  /\ [][((FireSettle \/ FireRecover \/ FireRestart \/ FireObserve)
           /\ ~state.isBuffering /\ ~state'.isBuffering)
          => SessionState(state') = SessionState(state)]_vars


\* C35: during a Buffering session the playback position is displaced only
\* transiently: whenever no callback of a seek is pending, the position of
\* the source is the one captured at the start of the session; and the
\* position an attempt saves before it seeks is that position, never the
\* target of another attempt's seek.  (Checked where the host never moves
\* the position.)
NoSettlePending == \A i \in 1..Len(timers) : timers[i].kind # "settle"

C35_DisplacedOnlyTransiently ==
  /\ []((state.isBuffering /\ NoSettlePending)
          => video.currentTime = state.originalPlaybackTime)
  /\ [][Seeks =>
          /\ timers'[Len(timers')].kind = "settle"
          /\ timers'[Len(timers')].pos = state'.originalPlaybackTime]_vars


\* C36: no start/stop churn: a tick never starts a session and stops it
\* again without a seek; in particular, a tick that finds the controller
\* Idle on a source whose furthest buffered end is within 0.5 s of the
\* duration leaves it Idle and sends no started and no complete event.
C36_NoChurn ==
  [][Tick =>
       /\ ~("start" \in Elems(did') /\ "stop" \in Elems(did') /\ "seek" \notin Elems(did'))
       /\ (~state.isBuffering /\ NearEnd(video))
            => /\ ~state'.isBuffering
               /\ "start" \notin Elems(did')
               /\ CountStatus(sent', "started") = 0
               /\ CountStatus(sent', "complete") = 0]_vars


\* C37: the last known quality label is never lost while a source stays
\* bound: once it is non-null, no start, stop, attempt or detection sets it
\* back to null.
C37_QualityLabelKept ==
  [][( /\ state.videoElement # NoVideo
       /\ state'.videoElement # NoVideo
       /\ state.lastKnownQuality # NoQuality )
      => state'.lastKnownQuality # NoQuality]_vars

============================================================================
